---- MODULE Spec2Model ----
(***************************************************************************)
(* aws/rapids_intro.ipynb as a state machine.                              *)
(*                                                                         *)
(* The state is the kernel's namespace (the names the code cells bind),    *)
(* the literals of the parameter cell (the notebook's configuration        *)
(* knobs, which the notebook tells its reader to edit), the position of    *)
(* the top-to-bottom run, the exception that stopped it, and what the run  *)
(* executed and printed.  Each code cell is one action.                    *)
(*                                                                         *)
(* The values the libraries compute (arrays, frames, fitted models,        *)
(* predictions, scores) are held as terms: a table is identified by the    *)
(* generator arguments that produced it, the seed of the shuffle applied   *)
(* to it and the interval of (shuffled) row positions it holds; a model    *)
(* by the library and the data it was fit on; a score by the targets and   *)
(* predictions it was computed from.  No floating-point value is computed. *)
(***************************************************************************)
EXTENDS Integers, Sequences, FiniteSets, TLC

\* ------------------------------------------------------------------ bounds
\* Largest of the small sample counts an edit of the parameter cell may set
\* (next to the two counts the notebook names, 2**19 and 2**20).
MaxSamples == 5

\* --------------------------------------------------- the notebook's literals
N_SAMPLES_WRITTEN == 524288        \* n_samples = 2**19
N_SAMPLES_NOTE_FROM == 1048576     \* NOTE: "from 2**20 ..."
N_SAMPLES_NOTE_TO == 524288        \* NOTE: "... to 2**19"
N_FEATURES_WRITTEN == 399
RANDOM_STATE_WRITTEN == 23
TEST_SIZE_PERCENT == 20            \* test_size = 0.2

\* Values an edit of the parameter cell may give the three knobs.
SampleChoices == {N_SAMPLES_NOTE_FROM, N_SAMPLES_NOTE_TO} \cup (1..MaxSamples)
FeatureChoices == {N_FEATURES_WRITTEN, 2}
SeedChoices == {RANDOM_STATE_WRITTEN, 7}

\* ------------------------------------------------------------- the cells
CodeCells ==
    << "e9b9cba9", "c6e564b5", "7f1a649c", "b792261e", "196d7135", "bf319f1f",
       "eb18356d", "12b4f5c1", "d1b6ba1d", "17d77677", "5f1e77ab" >>

FirstCell == CodeCells[1]

CellIndex(id) == CHOOSE i \in 1..Len(CodeCells) : CodeCells[i] = id

\* The cell below `id`, or "done" below the last code cell.
Below(id) ==
    IF CellIndex(id) = Len(CodeCells) THEN "done" ELSE CodeCells[CellIndex(id) + 1]

\* Every name a code cell binds.
Names ==
    { "cudf", "url", "tips_df",
      "make_regression", "train_test_split", "cuLinearRegression", "r2_score",
      "skLinearRegression", "n_samples", "n_features", "random_state",
      "X", "y", "X_cudf", "X_cudf_test", "y_cudf", "y_cudf_test",
      "X_train", "X_test", "y_train", "y_test",
      "ols_sk", "predict_sk", "r2_score_sk",
      "ols_cuml", "predict_cuml", "r2_score_cuml" }

\* ------------------------------------------------------------- the values
Unbound == [k |-> "unbound"]
Imported(what) == [k |-> "import", name |-> what]
IntValue(i) == [k |-> "int", v |-> i]
StrValue(s) == [k |-> "str", v |-> s]
NoShuffle == -1

\* cuml.make_regression(n_samples, n_features, random_state): a device array
\* of n_samples rows by n_features columns and the array of their targets.
make_regression(n, f, seed) ==
    LET t(col, cols) ==
            [k |-> "array", mem |-> "device", col |-> col, cols |-> cols,
             gen |-> <<n, f, seed>>, shuffle |-> NoShuffle, lo |-> 0, hi |-> n]
    IN  << t("X", f), t("y", 1) >>

\* cudf.DataFrame(array)
DataFrame(a) == [a EXCEPT !.k = "DataFrame"]

\* frame[0]: the single column of a one-column frame, as a Series
Column0(df) == [df EXCEPT !.k = "Series"]

\* Number of rows a table holds.
rows(t) == t.hi - t.lo

\* A split that truncates both sizes, int(rows * (1 - p)) and int(rows * p).
train_test_split_truncating(X, y, percent, seed) ==
    LET n == rows(X)
        test == (n * percent) \div 100
        train == (n * (100 - percent)) \div 100
        head(t) == [t EXCEPT !.shuffle = seed, !.lo = 0, !.hi = train]
        tail(t) == [t EXCEPT !.shuffle = seed, !.lo = n - test, !.hi = n]
    IN  << head(X), tail(X), head(y), tail(y) >>

\* A split that shuffles the targets apart from their rows.
train_test_split_unpaired(X, y, percent, seed) ==
    LET n == rows(X)
        test == (n * percent) \div 100
        train == n - test
        head(t, s) == [t EXCEPT !.shuffle = s, !.lo = 0, !.hi = train]
        tail(t, s) == [t EXCEPT !.shuffle = s, !.lo = n - test, !.hi = n]
    IN  << head(X, seed), tail(X, seed), head(y, seed + 1), tail(y, seed + 1) >>

\* cuml.train_test_split(X, y, test_size=p, random_state=seed): both tables are
\* shuffled by the one seeded permutation; the test part is the last
\* int(rows * p) positions and the training part the positions before them.
train_test_split(X, y, percent, seed) ==
    LET n == rows(X)
        test == (n * percent) \div 100
        train == n - test
        head(t) == [t EXCEPT !.shuffle = seed, !.lo = 0, !.hi = train]
        tail(t) == [t EXCEPT !.shuffle = seed, !.lo = n - test, !.hi = n]
    IN  << head(X), tail(X), head(y), tail(y) >>

\* frame.to_pandas(): a new host-memory object holding the same rows.
to_pandas(t) == [t EXCEPT !.mem = "host"]

\* The rows a table holds, whatever memory and container hold them.
Logical(t) ==
    [col |-> t.col, gen |-> t.gen, shuffle |-> t.shuffle, lo |-> t.lo, hi |-> t.hi]

\* LinearRegression(options): an estimator of the library the class is from
Construct(class, opts) == [k |-> "estimator", lib |-> class.name, opts |-> opts]

\* estimator.fit(X, y): the estimator, fitted in place on (X, y)
fit(est, X, y) == [k |-> "model", lib |-> est.lib, opts |-> est.opts, X |-> X, y |-> y]

\* model.predict(X)
predict(model, X) == [k |-> "predictions", model |-> model, X |-> X]

\* cuml.metrics.regression.r2_score(y, y_hat)
r2_score(y_true, y_pred) == [k |-> "score", y |-> y_true, y_hat |-> y_pred]

\* "<label>%s" % value
Format(label, value) == [k |-> "line", label |-> label, value |-> value]

NoRun == [k |-> "none"]

\* ------------------------------------------------------------------ state
VARIABLES
    src,      \* the literals of the parameter cell c6e564b5
    ns,       \* the kernel namespace: name -> value
    fresh,    \* name -> bound by the current run
    pc,       \* the next code cell of the run, or "done"
    error,    \* the exception that stopped the run, or "none"
    trace,    \* the statements the current run executed
    out,      \* the lines the current run printed
    prev      \* what the previous run left, or NoRun

vars == << src, ns, fresh, pc, error, trace, out, prev >>

Init ==
    /\ src = [n_samples |-> N_SAMPLES_WRITTEN, n_features |-> N_FEATURES_WRITTEN,
              random_state |-> RANDOM_STATE_WRITTEN]
    /\ ns = [x \in Names |-> Unbound]
    /\ fresh = [x \in Names |-> FALSE]
    /\ pc = FirstCell
    /\ error = "none"
    /\ trace = << >>
    /\ out = << >>
    /\ prev = NoRun

\* --------------------------------------------------------------- helpers
Running(id) == pc = id /\ error = "none"

Missing(reads) == \E r \in reads : ns[r] = Unbound

\* The namespace after binding the names of record `upd`.
Bound(upd) == [x \in Names |-> IF x \in DOMAIN upd THEN upd[x] ELSE ns[x]]

Freshened(upd) == [x \in Names |-> fresh[x] \/ x \in DOMAIN upd]

\* One executed statement: the cell, the statement, the sample count it was
\* given (0 when it takes none) and its other numeric arguments.
Step(cell, stmt, n, args) == [cell |-> cell, stmt |-> stmt, n_samples |-> n, args |-> args]

Printed(cell, line) == [cell |-> cell, line |-> line]

\* The cell ran to its end: bind, log, print, go to the cell below.
Finish(id, upd, steps, lines) ==
    /\ ns' = Bound(upd)
    /\ fresh' = Freshened(upd)
    /\ trace' = trace \o steps
    /\ out' = out \o lines
    /\ pc' = Below(id)
    /\ UNCHANGED << src, error, prev >>

\* A statement of the cell raised: what ran before it stays bound, the run stops.
Raise(exc, upd, steps, lines) ==
    /\ ns' = Bound(upd)
    /\ fresh' = Freshened(upd)
    /\ trace' = trace \o steps
    /\ out' = out \o lines
    /\ error' = exc
    /\ UNCHANGED << src, pc, prev >>

NoBinding == [x \in {} |-> Unbound]

\* ------------------------------------------------------ the cuDF example
\* Cell e9b9cba9: import cudf, read the tips CSV from its URL, add the
\* tip_percentage column, print the grouped mean.  The fetch may fail; the
\* import and the url are bound by then.
Cell_e9b9cba9 ==
    /\ Running("e9b9cba9")
    /\ \E fetched \in BOOLEAN :
        LET id == "e9b9cba9"
            early == [cudf |-> Imported("cudf"), url |-> StrValue("tips.csv")]
            tips == [k |-> "DataFrame", mem |-> "device", col |-> "tips"]
            s1 == << Step(id, "import cudf", 0, << >>) >>
            s2 == << Step(id, "tips_df = cudf.read_csv(url)", 0, << >>) >>
            s3 == << Step(id, "tips_df['tip_percentage'] = ...", 0, << >>),
                     Step(id, "print(tips_df.groupby('size').tip_percentage.mean())", 0, << >>) >>
        IN  IF fetched
            THEN Finish(id, early @@ [tips_df |-> tips], s1 \o s2 \o s3,
                        << Printed(id, Format("", [k |-> "groupby mean", of |-> tips])) >>)
            ELSE Raise("HTTPError", early, s1 \o s2, << >>)

\* The reader runs the linear-regression example only: cell e9b9cba9 is
\* left unexecuted and the run starts at the parameter cell.
Skip_e9b9cba9 ==
    /\ Running("e9b9cba9")
    /\ pc' = Below("e9b9cba9")
    /\ UNCHANGED << src, ns, fresh, error, trace, out, prev >>

\* The reader edits the literals of the parameter cell before a run.
EditParams ==
    /\ Running(FirstCell)
    /\ \E n \in SampleChoices, f \in FeatureChoices, s \in SeedChoices :
        /\ src' = [n_samples |-> n, n_features |-> f, random_state |-> s]
        /\ src' # src
    /\ UNCHANGED << ns, fresh, pc, error, trace, out, prev >>

\* ------------------------------------------------ the cuML example: set-up
\* A parameter cell that lowers a large sample count by itself.
ParamSteps_capping ==
    LET id == "c6e564b5"
    IN  << Step(id, "imports", 0, << >>),
           Step(id, "n_samples = ...", src.n_samples, << >>) >>
        \o (IF src.n_samples > N_SAMPLES_NOTE_TO
            THEN << Step(id, "n_samples = 2**19", 0, << >>) >> ELSE << >>)
        \o << Step(id, "n_features = ...", 0, << src.n_features >>),
              Step(id, "random_state = ...", 0, << src.random_state >>) >>

\* The statements of cell c6e564b5.
ParamSteps ==
    LET id == "c6e564b5"
    IN  << Step(id, "imports", 0, << >>),
           Step(id, "n_samples = ...", src.n_samples, << >>),
           Step(id, "n_features = ...", 0, << src.n_features >>),
           Step(id, "random_state = ...", 0, << src.random_state >>) >>

\* Cell c6e564b5: the example's imports and its three parameters.
Cell_c6e564b5 ==
    /\ Running("c6e564b5")
    /\ LET id == "c6e564b5"
           upd == [make_regression |-> Imported("cuml.make_regression"),
                   train_test_split |-> Imported("cuml.train_test_split"),
                   cuLinearRegression |-> Imported("cuml.linear_model.LinearRegression"),
                   r2_score |-> Imported("cuml.metrics.regression.r2_score"),
                   skLinearRegression |-> Imported("sklearn.linear_model.LinearRegression"),
                   n_samples |-> IntValue(src.n_samples),
                   n_features |-> IntValue(src.n_features),
                   random_state |-> IntValue(src.random_state)]
       IN  Finish(id, upd, ParamSteps, << >>)

\* A generator call without its seed: the data follow the generator's global
\* state, which what ran earlier in the run has advanced.
Generated_unseeded ==
    make_regression(ns["n_samples"].v, ns["n_features"].v, Len(trace))

\* make_regression(n_samples=n_samples, n_features=n_features,
\*                 random_state=random_state)
Generated ==
    make_regression(ns["n_samples"].v, ns["n_features"].v, ns["random_state"].v)

\* Cell 7f1a649c: generate, wrap in cuDF containers, split.
Cell_7f1a649c ==
    /\ Running("7f1a649c")
    /\ LET id == "7f1a649c"
       IN  IF Missing({"make_regression", "n_samples", "n_features", "random_state"})
           THEN Raise("NameError", NoBinding, << >>, << >>)
           ELSE
             LET n == ns["n_samples"].v
                 f == ns["n_features"].v
                 seed == ns["random_state"].v
                 XY == Generated
                 s1 == << Step(id, "X, y = make_regression(...)", n, << f, seed >>) >>
             IN  IF Missing({"cudf"})
                 THEN Raise("NameError", [X |-> XY[1], y |-> XY[2]], s1, << >>)
                 ELSE
                   LET X == DataFrame(XY[1])
                       y == Column0(DataFrame(XY[2]))
                       s2 == << Step(id, "X = cudf.DataFrame(X)", 0, << >>),
                                Step(id, "y = cudf.DataFrame(y)[0]", 0, << >>) >>
                   IN  IF Missing({"train_test_split"})
                       THEN Raise("NameError", [X |-> X, y |-> y], s1 \o s2, << >>)
                       ELSE
                         LET parts == train_test_split(X, y, TEST_SIZE_PERCENT, seed)
                         IN  Finish(id,
                                    [X |-> X, y |-> y,
                                     X_cudf |-> parts[1], X_cudf_test |-> parts[2],
                                     y_cudf |-> parts[3], y_cudf_test |-> parts[4]],
                                    s1 \o s2 \o
                                    << Step(id, "... = train_test_split(X, y, ...)", 0,
                                            << TEST_SIZE_PERCENT, seed >>) >>,
                                    << >>)

\* A transfer that moves: the device frames are gone once read.
Copied_moving ==
    [X_train |-> to_pandas(ns["X_cudf"]), X_test |-> to_pandas(ns["X_cudf_test"]),
     y_train |-> to_pandas(ns["y_cudf"]), y_test |-> to_pandas(ns["y_cudf_test"]),
     X_cudf |-> Unbound, X_cudf_test |-> Unbound,
     y_cudf |-> Unbound, y_cudf_test |-> Unbound]

\* A transfer that copies the test rows into the training name.
Copied_crossed ==
    [X_train |-> to_pandas(ns["X_cudf_test"]), X_test |-> to_pandas(ns["X_cudf_test"]),
     y_train |-> to_pandas(ns["y_cudf_test"]), y_test |-> to_pandas(ns["y_cudf_test"])]

\* The four assignments of cell b792261e.
Copied ==
    [X_train |-> to_pandas(ns["X_cudf"]), X_test |-> to_pandas(ns["X_cudf_test"]),
     y_train |-> to_pandas(ns["y_cudf"]), y_test |-> to_pandas(ns["y_cudf_test"])]

\* Cell b792261e: copy the four parts of the split to host memory.  The
\* four device names are bound by one statement, so they are bound together.
Cell_b792261e ==
    /\ Running("b792261e")
    /\ LET id == "b792261e"
       IN  IF Missing({"X_cudf", "X_cudf_test", "y_cudf", "y_cudf_test"})
           THEN Raise("NameError", NoBinding, << >>, << >>)
           ELSE Finish(id, Copied,
                       << Step(id, "X_train = X_cudf.to_pandas()", 0, << >>),
                          Step(id, "X_test = X_cudf_test.to_pandas()", 0, << >>),
                          Step(id, "y_train = y_cudf.to_pandas()", 0, << >>),
                          Step(id, "y_test = y_cudf_test.to_pandas()", 0, << >>) >>,
                       << >>)

\* ------------------------------------------------- the scikit-learn model
\* Cell 196d7135: construct the host estimator and fit it.
Cell_196d7135 ==
    /\ Running("196d7135")
    /\ LET id == "196d7135"
       IN  IF Missing({"skLinearRegression"})
           THEN Raise("NameError", NoBinding, << >>, << >>)
           ELSE
             LET est == Construct(ns["skLinearRegression"],
                                  "fit_intercept=True, normalize=True, n_jobs=-1")
                 s1 == << Step(id, "ols_sk = skLinearRegression(...)", 0, << >>) >>
             IN  IF Missing({"X_train", "y_train"})
                 THEN Raise("NameError", [ols_sk |-> est], s1, << >>)
                 ELSE Finish(id, [ols_sk |-> fit(est, ns["X_train"], ns["y_train"])],
                             s1 \o << Step(id, "ols_sk.fit(X_train, y_train)", 0, << >>) >>,
                             << >>)

\* Cell bf319f1f
Cell_bf319f1f ==
    /\ Running("bf319f1f")
    /\ LET id == "bf319f1f"
       IN  IF Missing({"ols_sk", "X_test"})
           THEN Raise("NameError", NoBinding, << >>, << >>)
           ELSE Finish(id, [predict_sk |-> predict(ns["ols_sk"], ns["X_test"])],
                       << Step(id, "predict_sk = ols_sk.predict(X_test)", 0, << >>) >>,
                       << >>)

\* Cell eb18356d
Cell_eb18356d ==
    /\ Running("eb18356d")
    /\ LET id == "eb18356d"
       IN  IF Missing({"r2_score", "y_cudf_test", "predict_sk"})
           THEN Raise("NameError", NoBinding, << >>, << >>)
           ELSE Finish(id, [r2_score_sk |-> r2_score(ns["y_cudf_test"], ns["predict_sk"])],
                       << Step(id, "r2_score_sk = r2_score(y_cudf_test, predict_sk)", 0, << >>) >>,
                       << >>)

\* --------------------------------------------------------- the cuML model
\* Cell 12b4f5c1: construct the device estimator and fit it.
Cell_12b4f5c1 ==
    /\ Running("12b4f5c1")
    /\ LET id == "12b4f5c1"
       IN  IF Missing({"cuLinearRegression"})
           THEN Raise("NameError", NoBinding, << >>, << >>)
           ELSE
             LET est == Construct(ns["cuLinearRegression"],
                                  "fit_intercept=True, normalize=True, algorithm='eig'")
                 s1 == << Step(id, "ols_cuml = cuLinearRegression(...)", 0, << >>) >>
             IN  IF Missing({"X_cudf", "y_cudf"})
                 THEN Raise("NameError", [ols_cuml |-> est], s1, << >>)
                 ELSE Finish(id, [ols_cuml |-> fit(est, ns["X_cudf"], ns["y_cudf"])],
                             s1 \o << Step(id, "ols_cuml.fit(X_cudf, y_cudf)", 0, << >>) >>,
                             << >>)

\* Cell d1b6ba1d
Cell_d1b6ba1d ==
    /\ Running("d1b6ba1d")
    /\ LET id == "d1b6ba1d"
       IN  IF Missing({"ols_cuml", "X_cudf_test"})
           THEN Raise("NameError", NoBinding, << >>, << >>)
           ELSE Finish(id, [predict_cuml |-> predict(ns["ols_cuml"], ns["X_cudf_test"])],
                       << Step(id, "predict_cuml = ols_cuml.predict(X_cudf_test)", 0, << >>) >>,
                       << >>)

\* Cell 17d77677
Cell_17d77677 ==
    /\ Running("17d77677")
    /\ LET id == "17d77677"
       IN  IF Missing({"r2_score", "y_cudf_test", "predict_cuml"})
           THEN Raise("NameError", NoBinding, << >>, << >>)
           ELSE Finish(id, [r2_score_cuml |-> r2_score(ns["y_cudf_test"], ns["predict_cuml"])],
                       << Step(id, "r2_score_cuml = r2_score(y_cudf_test, predict_cuml)", 0, << >>) >>,
                       << >>)

\* ------------------------------------------------------- compare results
SKL_LABEL == "R^2 score (SKL):  "
CUML_LABEL == "R^2 score (cuML): "

\* The two names printed the other way round.
Compared_swapped == << "r2_score_cuml", "r2_score_sk" >>

\* The names the first and the second print statement format.
Compared == << "r2_score_sk", "r2_score_cuml" >>

\* Cell 5f1e77ab: the two print statements.
Cell_5f1e77ab ==
    /\ Running("5f1e77ab")
    /\ LET id == "5f1e77ab"
           s1 == << Step(id, "print(SKL)", 0, << >>) >>
           l1 == << Printed(id, Format(SKL_LABEL, ns[Compared[1]])) >>
       IN  IF Missing({Compared[1]})
           THEN Raise("NameError", NoBinding, << >>, << >>)
           ELSE IF Missing({Compared[2]})
           THEN Raise("NameError", NoBinding, s1, l1)
           ELSE Finish(id, NoBinding, s1 \o << Step(id, "print(cuML)", 0, << >>) >>,
                       l1 \o << Printed(id, Format(CUML_LABEL, ns[Compared[2]])) >>)

\* ------------------------------------------------------------- the runs
Ended == pc = "done" \/ error # "none"

\* What the run that just ended leaves for comparison with the next one.
Left ==
    [k |-> "run",
     ended |-> IF error = "none" THEN pc ELSE error,
     vals |-> [x \in Names |-> IF fresh[x] THEN ns[x] ELSE Unbound],
     trace |-> trace,
     out |-> out]

StartRun(namespace) ==
    /\ Ended
    /\ prev' = Left
    /\ ns' = namespace
    /\ fresh' = [x \in Names |-> FALSE]
    /\ pc' = FirstCell
    /\ error' = "none"
    /\ trace' = << >>
    /\ out' = << >>
    /\ UNCHANGED src

\* Run the cells again from the top in the same kernel: the names stay bound.
RunAgain == StartRun(ns)

\* Restart the kernel and run from the top: the namespace is empty again.
RestartKernel == StartRun([x \in Names |-> Unbound])

Next ==
    \/ EditParams
    \/ Cell_e9b9cba9
    \/ Skip_e9b9cba9
    \/ Cell_c6e564b5
    \/ Cell_7f1a649c
    \/ Cell_b792261e
    \/ Cell_196d7135
    \/ Cell_bf319f1f
    \/ Cell_eb18356d
    \/ Cell_12b4f5c1
    \/ Cell_d1b6ba1d
    \/ Cell_17d77677
    \/ Cell_5f1e77ab
    \/ RunAgain
    \/ RestartKernel

Spec == Init /\ [][Next]_vars

\* ================================================================ claims
DeviceParts == {"X_cudf", "X_cudf_test", "y_cudf", "y_cudf_test"}
HostParts == {"X_train", "X_test", "y_train", "y_test"}

\* The run has executed the split (the four device names are bound together).
SplitDone == fresh["X_cudf"]

\* The run has executed the copy to host memory.
CopyDone == fresh["X_train"]

SplitPartitions ==
    LET Xa == ns["X_cudf"]
        Xb == ns["X_cudf_test"]
        ya == ns["y_cudf"]
        yb == ns["y_cudf_test"]
        n == ns["n_samples"].v
        g == << n, ns["n_features"].v, ns["random_state"].v >>
    IN  /\ \A t \in {Xa, Xb, ya, yb} : t.gen = g /\ t.shuffle = ns["random_state"].v
        /\ Xa.col = "X" /\ Xb.col = "X" /\ ya.col = "y" /\ yb.col = "y"
        /\ Xa.lo = 0 /\ Xa.hi = Xb.lo /\ Xb.hi = n /\ Xa.lo <= Xa.hi /\ Xb.lo <= Xb.hi
        /\ ya.lo = Xa.lo /\ ya.hi = Xa.hi
        /\ yb.lo = Xb.lo /\ yb.hi = Xb.hi

Knobs == {"n_samples", "n_features", "random_state"}
DataNames == {"X", "y"} \cup DeviceParts

\* This run and the one before it have both split, under the same three knobs.
SameKnobsTwice ==
    /\ prev.k = "run"
    /\ SplitDone
    /\ prev.vals["X_cudf"] # Unbound
    /\ \A x \in Knobs : prev.vals[x] = ns[x]

RegressionPath(tr) ==
    LET reg == SelectSeq(tr, LAMBDA st : st.cell # "e9b9cba9")
    IN  [i \in 1..Len(reg) |-> [reg[i] EXCEPT !.n_samples = 0]]

\* This run and the one before it ran to the end, under the same n_features
\* and random_state.
TwoCompleteRuns ==
    /\ prev.k = "run"
    /\ prev.ended = "done"
    /\ pc = "done"
    /\ \A x \in {"n_features", "random_state"} : prev.vals[x] = ns[x]

ComparisonOutput ==
    LET printed == SelectSeq(out, LAMBDA o : o.cell = "5f1e77ab")
    IN  [i \in 1..Len(printed) |-> printed[i].line]

\* C6: nothing is printed by the comparison cell before the run is done;
\* then it has printed the SKL line with the score this run computed from
\* the scikit-learn model's predictions, followed by the cuML line with the
\* score this run computed from the cuML model's predictions.
C6_PrintsBothScores ==
    /\ pc # "done" => ComparisonOutput = << >>
    /\ pc = "done" =>
        /\ ComparisonOutput = << Format("R^2 score (SKL):  ", ns["r2_score_sk"]),
                                 Format("R^2 score (cuML): ", ns["r2_score_cuml"]) >>
        /\ fresh["r2_score_sk"] /\ fresh["r2_score_cuml"]
        /\ ns["r2_score_sk"].k = "score" /\ ns["r2_score_cuml"].k = "score"
        /\ ns["r2_score_sk"].y_hat = ns["predict_sk"]
        /\ ns["r2_score_cuml"].y_hat = ns["predict_cuml"]
        /\ ns["predict_sk"].model.lib = "sklearn.linear_model.LinearRegression"
        /\ ns["predict_cuml"].model.lib = "cuml.linear_model.LinearRegression"

\* A second run, in the kernel of a first one whose knobs differed, is done.
C6_Witness ==
    /\ pc = "done"
    /\ prev.k = "run"
    /\ prev.ended = "done"
    /\ prev.vals["r2_score_sk"] # ns["r2_score_sk"]
    /\ Len(ComparisonOutput) = 2

\* C7: a run of the parameter cell as written binds n_samples to 2**20, and
\* the count the NOTE tells the reader to change it to is smaller than that.
C7_ConfiguredIsTwoToThe20 ==
    (fresh["n_samples"] /\ src.n_samples = N_SAMPLES_WRITTEN) =>
        /\ ns["n_samples"].v = N_SAMPLES_NOTE_FROM
        /\ N_SAMPLES_NOTE_TO < ns["n_samples"].v

\* C8: from the split to the end of the run no cell rebinds or changes one of
\* the four device frames, and the device model is fit on, and predicts on,
\* the frames the split left.
C8_CopyNotMove ==
    /\ [][(SplitDone /\ pc' # FirstCell) =>
            \A d \in DeviceParts : ns'[d] = ns[d] /\ ns'[d] # Unbound]_vars
    /\ [](fresh["ols_cuml"] =>
            ns["ols_cuml"] = fit(Construct(ns["cuLinearRegression"],
                                           "fit_intercept=True, normalize=True, algorithm='eig'"),
                                 ns["X_cudf"], ns["y_cudf"]))
    /\ [](fresh["predict_cuml"] =>
            /\ ns["predict_cuml"].X = ns["X_cudf_test"]
            /\ ns["X_cudf_test"].mem = "device")

\* The device model has predicted after the host model was fit and scored.
C8_Witness ==
    /\ fresh["predict_cuml"]
    /\ fresh["r2_score_sk"]
    /\ CopyDone
    /\ ns["X_cudf"].mem = "device"

\* C9: the two models are fit on the same rows (one in host memory, one in
\* device memory), predict on the same rows, are scored against the one
\* target column of the test part, and each score is computed from its own
\* model's predictions only.
C9_SameDataIndependentModels ==
    /\ fresh["ols_sk"] =>
        /\ ns["ols_sk"].X = ns["X_train"] /\ ns["ols_sk"].y = ns["y_train"]
        /\ ns["ols_sk"].X.mem = "host" /\ ns["ols_sk"].y.mem = "host"
        /\ Logical(ns["ols_sk"].X) = Logical(ns["X_cudf"])
        /\ Logical(ns["ols_sk"].y) = Logical(ns["y_cudf"])
    /\ fresh["ols_cuml"] =>
        /\ ns["ols_cuml"].X = ns["X_cudf"] /\ ns["ols_cuml"].y = ns["y_cudf"]
        /\ Logical(ns["ols_cuml"].X) = Logical(ns["ols_sk"].X)
        /\ Logical(ns["ols_cuml"].y) = Logical(ns["ols_sk"].y)
        /\ ns["ols_cuml"].lib # ns["ols_sk"].lib
    /\ fresh["predict_sk"] =>
        /\ ns["predict_sk"].model = ns["ols_sk"]
        /\ ns["predict_sk"].X = ns["X_test"]
        /\ Logical(ns["predict_sk"].X) = Logical(ns["X_cudf_test"])
    /\ fresh["predict_cuml"] =>
        /\ ns["predict_cuml"].model = ns["ols_cuml"]
        /\ ns["predict_cuml"].X = ns["X_cudf_test"]
    /\ fresh["r2_score_sk"] =>
        ns["r2_score_sk"] = r2_score(ns["y_cudf_test"], ns["predict_sk"])
    /\ fresh["r2_score_cuml"] =>
        /\ ns["r2_score_cuml"] = r2_score(ns["y_cudf_test"], ns["predict_cuml"])
        /\ ns["r2_score_cuml"].y = ns["r2_score_sk"].y

\* Both scores are computed, from a test part that holds rows.
C9_Witness ==
    /\ fresh["r2_score_sk"]
    /\ fresh["r2_score_cuml"]
    /\ rows(ns["y_cudf_test"]) > 0

\* C10: no run from a fresh kernel, with or without the cuDF example's cell,
\* stops for a name that no earlier cell has bound.
C10_NoUseBeforeDefinition == error # "NameError"

====
